---- MODULE Spec2Model ----
(***************************************************************************)
(* Model of the two entry points of the repository:                        *)
(*   scripts/convert_model.py         the conversion pipeline (main)       *)
(*   scripts/generate_dummy_model.py  the synthetic graph builder          *)
(* One run of one program is one behaviour.  Library calls (torch, onnx,   *)
(* onnxsim, onnxruntime) are modelled by their possible outcomes.          *)
(***************************************************************************)
EXTENDS Integers, Sequences, FiniteSets, TLC

VARIABLES
    program,      \* which script runs: "convert_model" or "generate_dummy_model"
    args,         \* parsed command line of the running script
    pc,           \* position of the running script
    exitStatus,   \* -1 while running, then the process exit status
    temp_onnx,    \* main: path of the export target
    onnx_path,    \* main: path of the current graph file
    fs,           \* graph files on disk: path -> content
    written,      \* every path this run has written to
    bound,        \* convert_pytorch_to_onnx: names bound by the imports
    model,        \* the loaded module: origin, evaluation mode
    probe,        \* what each checkpoint loader does on the artifact
    img_size,     \* img_size local of the convert function (sample input size)
    outcome,      \* outcome of check / simplify / quantize / benchmark stages
    bench_size,   \* spatial size of the benchmark input (0: not built)
    summary,      \* the printed summary (size), <<>> until printed
    nodes,        \* generate_dummy_model: node list handed to make_graph
    graph         \* generate_dummy_model: the assembled graph

vars == <<program, args, pc, exitStatus, temp_onnx, onnx_path, fs, written,
          bound, model, probe, img_size, outcome, bench_size, summary,
          nodes, graph>>

convVars == <<temp_onnx, onnx_path, bound, model, probe, img_size, outcome,
              bench_size, summary>>
genVars == <<nodes, graph>>

(***************************************************************************)
(* Bounds and input sets                                                   *)
(***************************************************************************)
MaxImgSize == 4

ImgSizes == 1..MaxImgSize
WeightPaths == {"w.weights", "w.pt", "w.weights.pt"}
\* --cfg absent (None) is <<>>; a given value is a one-element sequence
CfgValues == {<<>>, <<"">>, <<"y.cfg">>}
OutputPaths == {"m.onnx", "m.bin"}
QuantizeModes == {"none", "int8"}
Strides == {2, 4}

(***************************************************************************)
(* String functions of Python used by main                                 *)
(***************************************************************************)
\* str.endswith(suffix)
endswith(s, suffix) ==
    /\ Len(s) >= Len(suffix)
    /\ SubSeq(s, Len(s) - Len(suffix) + 1, Len(s)) = suffix

\* str.replace(old, new): every non-overlapping occurrence, left to right
RECURSIVE replaceFrom(_, _, _, _)
replaceFrom(s, old, new, i) ==
    IF i > Len(s) THEN ""
    ELSE IF i + Len(old) - 1 <= Len(s) /\ SubSeq(s, i, i + Len(old) - 1) = old
         THEN new \o replaceFrom(s, old, new, i + Len(old))
         ELSE SubSeq(s, i, i) \o replaceFrom(s, old, new, i + 1)

replace(s, old, new) == replaceFrom(s, old, new, 1)

\* truth value of an optional string argument (None and "" are falsy)
truthy(opt) == Len(opt) = 1 /\ Len(opt[1]) > 0

(***************************************************************************)
(* File system helpers                                                     *)
(***************************************************************************)
exists(path) == path \in DOMAIN fs

writeFile(f, path, content) ==
    [p \in DOMAIN f \cup {path} |-> IF p = path THEN content ELSE f[p]]

removeFile(f, path) == [p \in DOMAIN f \ {path} |-> f[p]]

NoContent == [stages |-> <<>>, valid |-> FALSE, size |-> 0,
              traced_mode |-> "none", origin |-> "none"]
NoModel == [origin |-> "none", mode |-> "none"]
NoProbe == [modern |-> "untried", older |-> "untried"]
NoOutcome == [check |-> "none", simplify |-> "none", quantize |-> "none",
              benchmark |-> "none"]
NoGraph == [inputs |-> <<>>, outputs |-> <<>>, nodes |-> <<>>,
            initializer |-> {}]

(***************************************************************************)
(* Init: the state after parse_args of either script                       *)
(***************************************************************************)
ConvertArgs ==
    [weights : WeightPaths, cfg : CfgValues, output : OutputPaths,
     img_size : ImgSizes, quantize : QuantizeModes, simplify : BOOLEAN]

GenerateArgs ==
    [output : OutputPaths, img_size : ImgSizes, quantize : BOOLEAN]

Init ==
    /\ program \in {"convert_model", "generate_dummy_model"}
    /\ args \in IF program = "convert_model" THEN ConvertArgs ELSE GenerateArgs
    /\ pc = "main"
    /\ exitStatus = -1
    /\ temp_onnx = ""
    /\ onnx_path = ""
    /\ fs = [p \in {} |-> NoContent]
    /\ written = {}
    /\ bound = {}
    /\ model = NoModel
    /\ probe = NoProbe
    /\ img_size = 0
    /\ outcome = NoOutcome
    /\ bench_size = 0
    /\ summary = << >>
    /\ nodes = << >>
    /\ graph = NoGraph

(***************************************************************************)
(* Process termination                                                     *)
(***************************************************************************)
\* sys.exit(1)
SysExit ==
    /\ pc' = "exited"
    /\ exitStatus' = 1

\* an exception nothing catches: traceback, exit status 1
Uncaught ==
    /\ pc' = "crashed"
    /\ exitStatus' = 1

(***************************************************************************)
(* main, lines 212-225: intermediate path and format dispatch              *)
(***************************************************************************)
tempPath(a) ==
    IF a.quantize # "none" \/ a.simplify
    THEN replace(a.output, ".onnx", "_temp.onnx")
    ELSE a.output

main_temp_path ==
    /\ program = "convert_model"
    /\ pc = "main"
    /\ temp_onnx' = tempPath(args)
    /\ pc' = "dispatch"
    /\ UNCHANGED <<program, args, exitStatus, onnx_path, fs, written, bound,
                   model, probe, img_size, outcome, bench_size, summary,
                   genVars>>

selectsDarknetAnyCfg(weights, cfg) == endswith(weights, ".weights")

\* the condition of the if at line 218
selectsDarknet(weights, cfg) == endswith(weights, ".weights") /\ truthy(cfg)

main_dispatch ==
    /\ program = "convert_model"
    /\ pc = "dispatch"
    /\ pc' = IF selectsDarknet(args.weights, args.cfg)
             THEN "darknet_import" ELSE "pytorch_import"
    /\ img_size' = args.img_size
    /\ UNCHANGED <<program, args, exitStatus, temp_onnx, onnx_path, fs,
                   written, bound, model, probe, outcome, bench_size, summary,
                   genVars>>

(***************************************************************************)
(* Shared by both convert functions: model.eval() and torch.onnx.export    *)
(***************************************************************************)
evalSkipped(m) == m

\* model.eval(), lines 58 and 105
eval(m) == [m EXCEPT !.mode = "eval"]

\* torch.onnx.export of the module on a sample input of img_size x img_size,
\* lines 61-70 and 108-117; the trace may or may not be a valid graph
onnx_export(here) ==
    /\ pc = here
    /\ \/ \E valid \in BOOLEAN :
            /\ fs' = writeFile(fs, temp_onnx,
                        [stages |-> <<"export">>, valid |-> valid,
                         size |-> img_size, traced_mode |-> model.mode,
                         origin |-> model.origin])
            /\ written' = written \cup {temp_onnx}
            /\ onnx_path' = temp_onnx
            /\ pc' = "check"
            /\ UNCHANGED exitStatus
       \/ /\ Uncaught
          /\ UNCHANGED <<fs, written, onnx_path>>
    /\ UNCHANGED <<program, args, temp_onnx, bound, model, probe, img_size,
                   outcome, bench_size, summary, genVars>>

(***************************************************************************)
(* convert_darknet_to_onnx, lines 38-73                                    *)
(***************************************************************************)
darknet_import ==
    /\ pc = "darknet_import"
    /\ \/ /\ pc' = "darknet_load"
          /\ UNCHANGED exitStatus
       \/ SysExit
    /\ UNCHANGED <<program, args, temp_onnx, onnx_path, fs, written, bound,
                   model, probe, img_size, outcome, bench_size, summary,
                   genVars>>

\* Darknet(cfg, img_size) and the weight binding; a new module is in
\* training mode
darknet_load ==
    /\ pc = "darknet_load"
    /\ \/ /\ model' = [origin |-> "darknet", mode |-> "train"]
          /\ pc' = "darknet_eval"
          /\ UNCHANGED exitStatus
       \/ /\ Uncaught
          /\ UNCHANGED model
    /\ UNCHANGED <<program, args, temp_onnx, onnx_path, fs, written, bound,
                   probe, img_size, outcome, bench_size, summary, genVars>>

darknet_eval ==
    /\ pc = "darknet_eval"
    /\ model' = eval(model)
    /\ pc' = "darknet_export"
    /\ UNCHANGED <<program, args, exitStatus, temp_onnx, onnx_path, fs,
                   written, bound, probe, img_size, outcome, bench_size,
                   summary, genVars>>

darknet_export == onnx_export("darknet_export")

(***************************************************************************)
(* convert_pytorch_to_onnx, lines 75-120                                   *)
(***************************************************************************)
\* names bound by the first try when the importable modules are `avail`:
\* the import statements run in order and stop at the first ImportError
firstTryBinds(avail) ==
    IF "torch" \notin avail THEN {}
    ELSE IF "attempt_load" \notin avail THEN {"torch"}
    ELSE IF "check_img_size" \notin avail THEN {"torch", "attempt_load"}
    ELSE {"torch", "attempt_load", "check_img_size"}

firstTryOK(avail) == {"torch", "attempt_load", "check_img_size"} \subseteq avail

secondTryOK(avail) == {"torch", "Darknet"} \subseteq avail

Importable == SUBSET {"torch", "attempt_load", "check_img_size", "Darknet"}

\* lines 77-90
pytorch_import ==
    /\ pc = "pytorch_import"
    /\ \E avail \in Importable :
          IF firstTryOK(avail)
          THEN /\ bound' = firstTryBinds(avail)
               /\ pc' = "pytorch_load"
               /\ UNCHANGED exitStatus
          ELSE IF secondTryOK(avail)
          THEN /\ bound' = firstTryBinds(avail) \cup {"Darknet"}
               /\ pc' = "pytorch_load"
               /\ UNCHANGED exitStatus
          ELSE /\ bound' = firstTryBinds(avail)
               /\ SysExit
    /\ UNCHANGED <<program, args, temp_onnx, onnx_path, fs, written, model,
                   probe, img_size, outcome, bench_size, summary, genVars>>

\* utils.general.check_img_size: the size made a multiple of the stride
check_img_size(size, s) == ((size + s - 1) \div s) * s

\* what attempt_load(weights) and model.stride do on the artifact
ModernOutcomes == {"ok", "raises", "no_stride"}
\* what torch.load(weights) yields: a module, a dict holding the module under
\* 'model', a dict without that key, or an error
OlderOutcomes == {"module", "dict", "dict_no_model", "raises"}
Modes == {"train", "eval"}

\* the except clause of line 99 handles the error of the modern attempt:
\* only a NameError, raised when attempt_load or check_img_size is unbound
catchesNameError(modern) == modern = "unbound"

\* lines 94-103
pytorch_load ==
    /\ pc = "pytorch_load"
    /\ \E m \in ModernOutcomes, o \in OlderOutcomes, mode \in Modes,
          stride \in Strides :
          LET modern == IF "attempt_load" \notin bound THEN "unbound"
                        ELSE IF m # "ok" THEN m
                        ELSE IF "check_img_size" \notin bound THEN "unbound"
                        ELSE "ok"
          IN /\ probe' = [modern |-> modern, older |-> o]
             /\ IF modern = "ok"
                THEN /\ model' = [origin |-> "modern", mode |-> mode]
                     /\ img_size' = check_img_size(img_size, stride)
                     /\ pc' = "pytorch_eval"
                     /\ UNCHANGED exitStatus
                ELSE IF catchesNameError(modern) /\ o \in {"module", "dict"}
                THEN /\ model' = [origin |-> "older", mode |-> mode]
                     /\ pc' = "pytorch_eval"
                     /\ UNCHANGED <<img_size, exitStatus>>
                ELSE /\ Uncaught
                     /\ UNCHANGED <<model, img_size>>
    /\ UNCHANGED <<program, args, temp_onnx, onnx_path, fs, written, bound,
                   outcome, bench_size, summary, genVars>>

pytorch_eval ==
    /\ pc = "pytorch_eval"
    /\ model' = eval(model)
    /\ pc' = "pytorch_export"
    /\ UNCHANGED <<program, args, exitStatus, temp_onnx, onnx_path, fs,
                   written, bound, probe, img_size, outcome, bench_size,
                   summary, genVars>>

pytorch_export == onnx_export("pytorch_export")

(***************************************************************************)
(* main, lines 227-255, with the stage functions it calls                  *)
(***************************************************************************)
\* check_onnx_model, lines 122-131: any error of onnx.load or of the checker
\* is printed and the process exits with status 1
check_onnx_model ==
    /\ pc = "check"
    /\ IF fs[onnx_path].valid
       THEN /\ outcome' = [outcome EXCEPT !.check = "passed"]
            /\ pc' = "simplify"
            /\ UNCHANGED exitStatus
       ELSE /\ outcome' = [outcome EXCEPT !.check = "failed"]
            /\ SysExit
    /\ UNCHANGED <<program, args, temp_onnx, onnx_path, fs, written, bound,
                   model, probe, img_size, bench_size, summary, genVars>>

simplifiedPath == replace(temp_onnx, "_temp.onnx", "_simplified.onnx")

SimplifyOutcomes == {"absent", "raised", "rejected", "accepted"}

\* lines 230-232 and simplify_onnx_model, lines 133-152
simplify_onnx_model ==
    /\ pc = "simplify"
    /\ IF ~args.simplify
       THEN /\ pc' = "quantize"
            /\ UNCHANGED <<onnx_path, fs, written, outcome, exitStatus>>
       ELSE \E o \in SimplifyOutcomes :
            /\ outcome' = [outcome EXCEPT !.simplify = o]
            /\ CASE o = "absent" ->
                      \* ImportError of onnxsim: return onnx_path
                      /\ pc' = "quantize"
                      /\ UNCHANGED <<onnx_path, fs, written, exitStatus>>
                 [] o = "raised" ->
                      \* onnxsim.simplify raises: nothing catches it
                      /\ Uncaught
                      /\ UNCHANGED <<onnx_path, fs, written>>
                 [] o = "rejected" ->
                      \* check is false: return onnx_path
                      /\ pc' = "quantize"
                      /\ UNCHANGED <<onnx_path, fs, written, exitStatus>>
                 [] o = "accepted" ->
                      /\ fs' = writeFile(fs, simplifiedPath,
                             [fs[onnx_path] EXCEPT
                                !.stages = Append(@, "simplify")])
                      /\ written' = written \cup {simplifiedPath}
                      /\ onnx_path' = simplifiedPath
                      /\ pc' = "quantize"
                      /\ UNCHANGED exitStatus
    /\ UNCHANGED <<program, args, temp_onnx, bound, model, probe, img_size,
                   bench_size, summary, genVars>>

QuantizeOutcomes == {"ok", "raised"}

\* lines 234-241 and quantize_onnx_model, lines 154-167
main_quantize ==
    /\ pc = "quantize"
    /\ IF args.quantize = "int8"
       THEN \E o \in QuantizeOutcomes :
            /\ outcome' = [outcome EXCEPT !.quantize = o]
            /\ IF o = "ok"
               THEN /\ fs' = writeFile(fs, args.output,
                           [fs[onnx_path] EXCEPT
                              !.stages = Append(@, "quantize")])
                    /\ written' = written \cup {args.output}
                    /\ onnx_path' = args.output
                    /\ pc' = "cleanup"
                    /\ UNCHANGED exitStatus
               ELSE \* quantize_dynamic raises: nothing catches it
                    /\ Uncaught
                    /\ UNCHANGED <<onnx_path, fs, written>>
       ELSE IF onnx_path # args.output
       THEN \* shutil.copy(onnx_path, args.output)
            /\ fs' = writeFile(fs, args.output, fs[onnx_path])
            /\ written' = written \cup {args.output}
            /\ onnx_path' = args.output
            /\ pc' = "cleanup"
            /\ UNCHANGED <<outcome, exitStatus>>
       ELSE /\ pc' = "cleanup"
            /\ UNCHANGED <<onnx_path, fs, written, outcome, exitStatus>>
    /\ UNCHANGED <<program, args, temp_onnx, bound, model, probe, img_size,
                   bench_size, summary, genVars>>

\* lines 243-245
main_cleanup ==
    /\ pc = "cleanup"
    /\ fs' = IF exists(temp_onnx) /\ temp_onnx # args.output
             THEN removeFile(fs, temp_onnx)
             ELSE fs
    /\ pc' = "benchmark"
    /\ UNCHANGED <<program, args, exitStatus, temp_onnx, onnx_path, written,
                   bound, model, probe, img_size, outcome, bench_size,
                   summary, genVars>>

\* what the engine does with the graph and a correctly shaped input
BenchmarkOutcomes == {"ok", "load_failed", "warmup_failed", "timed_failed"}

\* the engine rejects an input whose static (spatial) dimensions differ from
\* those the graph was exported with
benchmarkResult(content, size, o) ==
    IF o = "load_failed" THEN o
    ELSE IF content.size # size THEN "warmup_failed"
    ELSE o

\* test_onnx_model(onnx_path, size), lines 169-204; `catches` is the
\* try/except Exception around the whole benchmark
TestOnnxModel(catches) ==
    /\ pc = "benchmark"
    /\ \E o \in BenchmarkOutcomes :
          LET r == benchmarkResult(fs[onnx_path], args.img_size, o)
          IN /\ outcome' = [outcome EXCEPT !.benchmark = r]
             /\ bench_size' = IF r = "load_failed" THEN 0 ELSE args.img_size
             /\ IF r = "ok" \/ catches
                THEN /\ pc' = "summary"
                     /\ UNCHANGED exitStatus
                ELSE Uncaught
    /\ UNCHANGED <<program, args, temp_onnx, onnx_path, fs, written, bound,
                   model, probe, img_size, summary, genVars>>

test_onnx_model_uncaught == TestOnnxModel(FALSE)

\* line 248
test_onnx_model == TestOnnxModel(TRUE)

\* lines 250-255: the summary, then the script ends with status 0
main_summary ==
    /\ pc = "summary"
    /\ summary' = <<args.img_size>>
    /\ pc' = "done"
    /\ exitStatus' = 0
    /\ UNCHANGED <<program, args, temp_onnx, onnx_path, fs, written, bound,
                   model, probe, img_size, outcome, bench_size, genVars>>

(***************************************************************************)
(* generate_dummy_model.py: create_dummy_yolo_model, lines 25-170          *)
(***************************************************************************)
input_shape(size) == <<1, 3, size, size>>

output_shape_anchors == <<1, 100, 255>>

\* line 29: [batch, num_detections, (x, y, w, h, conf, class...)]
output_shape == <<1, 100, 85>>

Node(op, ins, outs, attrs) ==
    [op_type |-> op, inputs |-> ins, outputs |-> outs, attrs |-> attrs]

\* lines 53-66
constant_node ==
    Node("Constant", <<>>, <<"conv1_weight_tensor">>,
         [value |-> [name |-> "conv1_weight", dims |-> <<16, 3, 3, 3>>,
                     vals |-> <<>>]])
\* lines 69-76
conv_node ==
    Node("Conv", <<"input", "conv1_weight_tensor">>, <<"features">>,
         [kernel_shape |-> <<3, 3>>, pads |-> <<1, 1, 1, 1>>,
          strides |-> <<2, 2>>])
\* lines 79-83
gap_node ==
    Node("GlobalAveragePool", <<"features">>, <<"global_features">>, [none |-> 0])
\* lines 86-91
flatten_node ==
    Node("Flatten", <<"global_features">>, <<"flattened_features">>,
         [axis |-> 1])
\* lines 94-98
shape_node ==
    Node("Shape", <<"input">>, <<"input_shape">>, [none |-> 0])
\* lines 101-106
gather_node ==
    Node("Gather", <<"input_shape", "zero_index">>, <<"batch_size">>,
         [axis |-> 0])
\* lines 109-121
zero_index_node ==
    Node("Constant", <<>>, <<"zero_index">>,
         [value |-> [name |-> "zero_tensor", dims |-> <<1>>, vals |-> <<0>>]])
\* lines 124-128
reshape_node ==
    Node("Reshape", <<"flattened_features", "output_shape_tensor">>,
         <<"output">>, [none |-> 0])
\* lines 131-143: -1 is the dynamic batch size
output_shape_node ==
    Node("Constant", <<>>, <<"output_shape_tensor">>,
         [value |-> [name |-> "output_shape_tensor_value", dims |-> <<3>>,
                     vals |-> <<-1, 100, 85>>]])

\* lines 28-143: the declared input and output and the node objects, in the
\* order of the list given to make_graph (lines 147-150)
create_nodes ==
    /\ program = "generate_dummy_model"
    /\ pc = "main"
    /\ nodes' = <<zero_index_node, constant_node, conv_node, gap_node,
                  flatten_node, shape_node, gather_node, output_shape_node,
                  reshape_node>>
    /\ pc' = "make_graph"
    /\ UNCHANGED <<program, args, exitStatus, fs, written, graph, convVars>>

\* lines 146-162
make_graph ==
    /\ pc = "make_graph"
    /\ graph' = [inputs |-> <<[name |-> "input",
                               shape |-> input_shape(args.img_size)]>>,
                 outputs |-> <<[name |-> "output", shape |-> output_shape]>>,
                 nodes |-> nodes,
                 initializer |-> {}]
    /\ pc' = "check_model"
    /\ UNCHANGED <<program, args, exitStatus, fs, written, nodes, convVars>>

(***************************************************************************)
(* onnx.checker.check_model (default, without shape inference): the nodes  *)
(* are topologically sorted and in single-assignment form                  *)
(***************************************************************************)
seqToSet(q) == {q[i] : i \in DOMAIN q}

valueNames(vis) == {vis[i].name : i \in DOMAIN vis}

producedBefore(g, i) ==
    UNION {seqToSet(g.nodes[j].outputs) : j \in 1..(i - 1)}

checkerAccepts(g) ==
    /\ \A i \in DOMAIN g.nodes :
          seqToSet(g.nodes[i].inputs) \subseteq
              valueNames(g.inputs) \cup g.initializer \cup producedBefore(g, i)
    /\ \A i \in DOMAIN g.nodes :
          seqToSet(g.nodes[i].outputs) \cap
              (valueNames(g.inputs) \cup g.initializer \cup producedBefore(g, i))
              = {}

\* line 165: a checker error is an exception nothing catches
check_model ==
    /\ pc = "check_model"
    /\ IF checkerAccepts(graph)
       THEN /\ pc' = "save"
            /\ UNCHANGED exitStatus
       ELSE Uncaught
    /\ UNCHANGED <<program, args, fs, written, genVars, convVars>>

\* lines 168-170
save_model ==
    /\ pc = "save"
    /\ fs' = writeFile(fs, args.output,
                [stages |-> <<"synthetic">>, valid |-> TRUE,
                 size |-> args.img_size, traced_mode |-> "none",
                 origin |-> "builder"])
    /\ written' = written \cup {args.output}
    /\ pc' = "gen_summary"
    /\ UNCHANGED <<program, args, exitStatus, genVars, convVars>>

\* generate_dummy_model.main, lines 175-179
gen_summary ==
    /\ pc = "gen_summary"
    /\ pc' = "done"
    /\ exitStatus' = 0
    /\ UNCHANGED <<program, args, fs, written, genVars, convVars>>

(***************************************************************************)
(* Shape inference along the node sequence of the synthetic graph, by the  *)
(* semantics of the operators the builder uses (opset 12)                  *)
(***************************************************************************)
RECURSIVE prod(_)
prod(q) == IF q = <<>> THEN 1 ELSE q[1] * prod(SubSeq(q, 2, Len(q)))

InvalidShape == <<-1>>

\* Conv: spatial output size for kernel k, pads pb/pe and stride st
convOutDim(d, k, pb, pe, st) == ((d + pb + pe - k) \div st) + 1

convShape(x, w, a) ==
    <<x[1], w[1],
      convOutDim(x[3], a.kernel_shape[1], a.pads[1], a.pads[3], a.strides[1]),
      convOutDim(x[4], a.kernel_shape[2], a.pads[2], a.pads[4], a.strides[2])>>

globalPoolShape(x) == <<x[1], x[2], 1, 1>>

flattenShape(x, axis) ==
    <<prod(SubSeq(x, 1, axis)), prod(SubSeq(x, axis + 1, Len(x)))>>

gatherShape(x, idx, axis) ==
    SubSeq(x, 1, axis) \o idx \o SubSeq(x, axis + 2, Len(x))

\* Reshape by a constant target holding at most one -1: the -1 entry takes
\* the remaining element count, which must divide exactly
reshapeShape(x, target) ==
    LET others == prod([i \in DOMAIN target |->
                          IF target[i] = -1 THEN 1 ELSE target[i]])
        hasNeg == \E i \in DOMAIN target : target[i] = -1
    IN IF hasNeg
       THEN IF others = 0 \/ prod(x) % others # 0 THEN InvalidShape
            ELSE [i \in DOMAIN target |->
                    IF target[i] = -1 THEN prod(x) \div others ELSE target[i]]
       ELSE IF prod(x) = others THEN target ELSE InvalidShape

\* shape of the output of node n, given the shapes `sh` and the constant
\* values `cv` of the tensors defined so far
nodeShape(n, sh, cv) ==
    CASE n.op_type = "Constant" -> n.attrs.value.dims
      [] n.op_type = "Conv" ->
            convShape(sh[n.inputs[1]], sh[n.inputs[2]], n.attrs)
      [] n.op_type = "GlobalAveragePool" -> globalPoolShape(sh[n.inputs[1]])
      [] n.op_type = "Flatten" -> flattenShape(sh[n.inputs[1]], n.attrs.axis)
      [] n.op_type = "Shape" -> <<Len(sh[n.inputs[1]])>>
      [] n.op_type = "Gather" ->
            gatherShape(sh[n.inputs[1]], sh[n.inputs[2]], n.attrs.axis)
      [] n.op_type = "Reshape" ->
            reshapeShape(sh[n.inputs[1]], cv[n.inputs[2]])

extend(f, k, v) == [x \in DOMAIN f \cup {k} |-> IF x = k THEN v ELSE f[x]]

RECURSIVE inferFrom(_, _, _, _)
inferFrom(ns, i, sh, cv) ==
    IF i > Len(ns) THEN sh
    ELSE LET n == ns[i]
         IN inferFrom(ns, i + 1,
                extend(sh, n.outputs[1], nodeShape(n, sh, cv)),
                IF n.op_type = "Constant"
                THEN extend(cv, n.outputs[1], n.attrs.value.vals)
                ELSE cv)

inferShapes(g) ==
    inferFrom(g.nodes, 1,
              [name \in valueNames(g.inputs) |->
                  (CHOOSE vi \in seqToSet(g.inputs) : vi.name = name).shape],
              [name \in {} |-> <<>>])
(***************************************************************************)
(* Specification                                                           *)
(***************************************************************************)
Next ==
    \/ main_temp_path
    \/ main_dispatch
    \/ darknet_import
    \/ darknet_load
    \/ darknet_eval
    \/ darknet_export
    \/ pytorch_import
    \/ pytorch_load
    \/ pytorch_eval
    \/ pytorch_export
    \/ check_onnx_model
    \/ simplify_onnx_model
    \/ main_quantize
    \/ main_cleanup
    \/ test_onnx_model
    \/ main_summary
    \/ create_nodes
    \/ make_graph
    \/ check_model
    \/ save_model
    \/ gen_summary

Spec == Init /\ [][Next]_vars

(***************************************************************************)
(* Properties                                                              *)
(***************************************************************************)
Converting == program = "convert_model"
Generating == program = "generate_dummy_model"

\* C1: whenever validation of the exported graph fails, the run ends with a
\* non-zero exit status and nothing has been written at the final output
\* path, for every combination of simplify flag and quantization mode.
C1_ValidationFailureWritesNoOutput ==
    outcome.check = "failed" =>
        /\ exitStatus = 1
        /\ args.output \notin written

\* C2: whenever a conversion run completes successfully, every file it wrote
\* other than the final output file has been removed.
C2_IntermediatesRemovedOnSuccess ==
    (Converting /\ pc = "done") =>
        \A p \in written \ {args.output} : p \notin DOMAIN fs

\* C3: a failing optional stage (simplifier absent, simplified graph
\* rejected, or the library call of simplify or quantize raising) never
\* terminates the run, and the final output is produced from the graph the
\* pipeline had before the failed stage.
SimplifyFailed == outcome.simplify \in {"absent", "raised", "rejected"}
QuantizeFailed == outcome.quantize = "raised"

C3_OptionalStageFailureKeepsGraph ==
    /\ (SimplifyFailed \/ QuantizeFailed) => exitStatus # 1
    /\ (SimplifyFailed /\ pc = "done") =>
          /\ args.output \in DOMAIN fs
          /\ \A i \in DOMAIN fs[args.output].stages :
                fs[args.output].stages[i] # "simplify"
    /\ (QuantizeFailed /\ pc = "done") =>
          /\ args.output \in DOMAIN fs
          /\ \A i \in DOMAIN fs[args.output].stages :
                fs[args.output].stages[i] # "quantize"

\* C4: a failure of the benchmark (engine cannot load the graph, or an
\* inference call fails during warm-up or the timed iterations) is reported
\* and never fatal: the run goes on to print its summary and ends with
\* status 0, and the final output file written before the benchmark is
\* neither removed nor modified.
BenchmarkFailed ==
    outcome.benchmark \in {"load_failed", "warmup_failed", "timed_failed"}

C4_BenchmarkFailureNotFatal ==
    /\ [](BenchmarkFailed =>
            /\ pc \in {"summary", "done"}
            /\ exitStatus # 1
            /\ args.output \in DOMAIN fs
            /\ (pc = "done" => (exitStatus = 0 /\ summary # <<>>)))
    /\ [][(pc \in {"benchmark", "summary"}) => (fs' = fs)]_vars

C4_BenchmarkFailedRunDone ==
    /\ Converting
    /\ pc = "done"
    /\ outcome.benchmark = "timed_failed"
    /\ exitStatus = 0
    /\ args.output \in DOMAIN fs

\* C5: the graph assembled by the synthetic graph builder passes the graph
\* validator for every image size: every node input resolves to a graph
\* input, an initializer or the output of an earlier node; every tensor name
\* is produced by exactly one node; and the shapes inferred along the node
\* sequence are consistent with the declared output shape.
InputsResolve(g) ==
    \A i \in DOMAIN g.nodes : \A k \in DOMAIN g.nodes[i].inputs :
        \/ \E vi \in seqToSet(g.inputs) : vi.name = g.nodes[i].inputs[k]
        \/ g.nodes[i].inputs[k] \in g.initializer
        \/ \E j \in 1..(i - 1) : \E m \in DOMAIN g.nodes[j].outputs :
              g.nodes[j].outputs[m] = g.nodes[i].inputs[k]

Producers(g, name) ==
    {i \in DOMAIN g.nodes :
        \E m \in DOMAIN g.nodes[i].outputs : g.nodes[i].outputs[m] = name}

SingleProducer(g) ==
    \A i \in DOMAIN g.nodes : \A m \in DOMAIN g.nodes[i].outputs :
        Cardinality(Producers(g, g.nodes[i].outputs[m])) = 1

ShapesConsistent(g) ==
    \A k \in DOMAIN g.outputs :
        /\ g.outputs[k].name \in DOMAIN inferShapes(g)
        /\ inferShapes(g)[g.outputs[k].name] = g.outputs[k].shape

C5_SyntheticGraphPassesValidator ==
    (Generating /\ graph # NoGraph) =>
        /\ InputsResolve(graph)
        /\ SingleProducer(graph)
        /\ ShapesConsistent(graph)

\* C6 (as stated): the channel dimension of the synthesized graph's declared
\* output equals (5 + num_classes) * num_anchors, 255 for 80 classes and 3
\* anchors.  Stated for whichever axis is taken as the channel axis.
C6_OutputChannelsTimesAnchors ==
    (Generating /\ graph # NoGraph) =>
        \E i \in DOMAIN graph.outputs[1].shape :
            graph.outputs[1].shape[i] = (5 + 80) * 3

\* C6 (amended): the last dimension of the synthesized graph's declared
\* output equals 5 + num_classes with no anchor multiplier, 85 for 80
\* classes (declared shape [1, 100, 85]), and it is the last entry of the
\* constant the Reshape node reshapes by.
ReshapeTarget(g) ==
    LET r == CHOOSE i \in DOMAIN g.nodes : g.nodes[i].op_type = "Reshape"
        c == CHOOSE j \in DOMAIN g.nodes :
                g.nodes[j].outputs[1] = g.nodes[r].inputs[2]
    IN g.nodes[c].attrs.value.vals

C6_OutputLastDimFivePlusClasses ==
    (Generating /\ graph # NoGraph) =>
        LET declared == graph.outputs[1].shape
        IN /\ Len(declared) = 3
           /\ declared[3] = 5 + 80
           /\ declared[3] = ReshapeTarget(graph)[3]

C6_SyntheticGraphSaved ==
    /\ Generating
    /\ pc = "done"
    /\ graph # NoGraph
    /\ args.output \in DOMAIN fs

\* C7: format dispatch selects the legacy-binary loader if and only if the
\* weight path ends in ".weights" and a configuration-file path is supplied
\* (a non-empty --cfg value); every other pair goes to the checkpoint loader.
HasLegacyExtension(w) ==
    \E k \in 0..Len(w) : w = SubSeq(w, 1, k) \o ".weights"

CfgSupplied(c) == c # <<>> /\ c[1] # ""

InLegacyLoader ==
    pc \in {"darknet_import", "darknet_load", "darknet_eval", "darknet_export"}
InCheckpointLoader ==
    pc \in {"pytorch_import", "pytorch_load", "pytorch_eval", "pytorch_export"}

C7_DispatchRule ==
    /\ InLegacyLoader =>
          (HasLegacyExtension(args.weights) /\ CfgSupplied(args.cfg))
    /\ InCheckpointLoader =>
          ~(HasLegacyExtension(args.weights) /\ CfgSupplied(args.cfg))
    /\ (Converting /\ model.origin = "darknet") =>
          (HasLegacyExtension(args.weights) /\ CfgSupplied(args.cfg))
    /\ (Converting /\ model.origin \in {"modern", "older"}) =>
          ~(HasLegacyExtension(args.weights) /\ CfgSupplied(args.cfg))

C7_LegacyExtensionWithoutCfg ==
    /\ pc = "pytorch_import"
    /\ args.weights = "w.weights"
    /\ args.cfg = <<>>

\* C8: on every path that reaches graph export, the loaded module has been
\* switched to inference mode after loading and before the export; no graph
\* is ever traced from a module in training mode.
C8_ExportInInferenceMode ==
    /\ pc \in {"darknet_export", "pytorch_export"} => model.mode = "eval"
    /\ Converting => \A p \in DOMAIN fs : fs[p].traced_mode = "eval"

C8_ExportedOlderModule ==
    /\ pc = "check"
    /\ fs[onnx_path].origin = "older"
    /\ fs[onnx_path].traced_mode = "eval"

\* C9: the checkpoint loader commits to the first loader that succeeds:
\* whenever the modern-family loader is unavailable or does not succeed on
\* the artifact and the older-family loader can load it, the module that is
\* exported is the one of the older-family loader; a module of a loader that
\* did not fully succeed is never exported.
ModernDidNotSucceed == probe.modern \in {"unbound", "raises", "no_stride"}
OlderCanLoad == probe.older \in {"module", "dict"}

C9_FallbackToOlderLoader ==
    /\ (ModernDidNotSucceed /\ OlderCanLoad) =>
          /\ model.origin = "older"
          /\ pc # "crashed"
    /\ \A p \in DOMAIN fs :
          /\ fs[p].origin = "modern" => probe.modern = "ok"
          /\ fs[p].origin = "older" => OlderCanLoad

\* C10: in every conversion run that reaches the benchmark, the spatial size
\* of the benchmark input and the size printed in the summary equal the
\* spatial size of the sample input the graph was exported with.
C10_BenchmarkSizeIsExportSize ==
    /\ (Converting /\ bench_size # 0) => bench_size = fs[onnx_path].size
    /\ (Converting /\ summary # <<>>) => summary[1] = fs[args.output].size

====
